---- MODULE Spec2Model ----
(***************************************************************************)
(* rekall/args.py: command line resolution.                                *)
(*                                                                         *)
(* parse_args builds a RekallArgParser holding the global options, runs    *)
(* LoadProfileIntoSession (phase 1: parse the global options, store them   *)
(* in the session state, guess the profile, LoadPlugins), then builds one  *)
(* sub-parser per kept command (phase 2), runs the final parse and either  *)
(* prints the help and exits, or returns the namespace.  The module also   *)
(* holds the coercers of the options (IntParser, ArrayIntParser) and       *)
(* MockArgParser, which are modelled as calls of their own.                *)
(*                                                                         *)
(* The module is Python 2 code (except Exception, e / basestring), so the  *)
(* behaviour of argparse that the model follows is that of Python 2.7.     *)
(***************************************************************************)
EXTENDS Integers, Sequences, FiniteSets, TLC

VARIABLES
    argv,           \* the argument vector handed to parse_args
    pc,             \* position of the control flow inside parse_args
    outcome,        \* "running", "returned", "exit" (SystemExit) or "raised"
    exitStatus,     \* the status handed to sys.exit / parser.exit
    profile,        \* user_session.profile ("none" is Python's None)
    guessCalls,     \* number of guesser.update_session() calls
    state,          \* user_session.state: the stored global options
    paths,          \* the list LoadPlugins iterates over
    i,              \* index in paths of the path LoadPlugins handles next
    j,              \* inside an archive: index of the next entry; else 0
    sysPath,        \* sys.path
    sysPathAtCall,  \* sys.path when LoadPlugins was called
    sysModules,     \* sys.modules: names of the modules already imported
    log,            \* the records written through logging
    attempts,       \* the import attempts of LoadPlugins, in order
    classes,        \* plugin.Command.classes, in registration order
    kept,           \* the list "classes" of parse_args, line 280
    parsers,        \* the dict "parsers" of parse_args: name -> class
    argsCalls,      \* the classes whose args() was called, in call order
    ignore_errors,  \* RekallArgParser.ignore_errors of the main parser
    result,         \* the value of the last parse
    errors,         \* the calls of RekallArgParser.error, in order
    printed,        \* what was printed: usage and help texts
    call,           \* a direct call of a coercer or of add_argument
    ret             \* what that call returned or raised

vars == << argv, pc, outcome, exitStatus, profile, guessCalls, state, paths,
           i, j, sysPath, sysPathAtCall, sysModules, log, attempts, classes,
           kept, parsers, argsCalls, ignore_errors, result, errors, printed,
           call, ret >>

(***************************************************************************)
(* Bounds of the model.                                                    *)
(***************************************************************************)
\* Longest list of bundle paths given after one --plugin flag.
MaxPaths == 2

\* Longest token handed to IntParser, in characters.
MaxTokenLen == 4

\* Longest list of magnitude sub-tokens handed to ArrayIntParser.
MaxSubs == 3

(***************************************************************************)
(* Sequence helpers.                                                       *)
(***************************************************************************)
SeqsUpTo(S, n) == UNION { [1..k -> S] : k \in 0..n }

Range(s) == { s[k] : k \in 1..Len(s) }


(***************************************************************************)
(* The command line: tokens and argparse's view of them.                   *)
(***************************************************************************)
\* The bundle files an invocation may name after --plugin.
PluginFiles ==
    { "good.py", "bad.py", "tweak.py", "arch.zip", "bad.zip", "notes.txt",
      "gone.py" }

\* argparse classifies an argument string as an option string ('O') when it
\* starts with "-", and as an argument ('A') otherwise.
OptionStrings ==
    { "--plugin", "--output", "-h", "--help", "--overwrite", "--pid",
      "--proc", "--bogus", "--verbose", "--logging" }

IsOptionString(tok) == tok \in OptionStrings

\* Python's None, for the options whose value is a string.
None == "None"

\* The attribute "module" is absent from the namespace.
NoModule == "<absent>"

\* The global options declared at import time, as argparse actions:
\* nargs "+" takes every argument up to the next option string, "1" takes
\* one argument, "0" (store_true) takes none.
DeclaredOptions ==
    [ plugin    |-> [flags |-> {"--plugin"}, nargs |-> "+"],
      output    |-> [flags |-> {"--output"}, nargs |-> "1"],
      help      |-> [flags |-> {"-h", "--help"}, nargs |-> "0"],
      overwrite |-> [flags |-> {"--overwrite"}, nargs |-> "0"] ]

\* The two global options that LoadProfileIntoSession reads by name (lines
\* 238-239) and that are declared outside this file: the verbose flag and
\* the logging level.
SessionOptions ==
    [ verbose |-> [flags |-> {"--verbose"}, nargs |-> "0"],
      logging |-> [flags |-> {"--logging"}, nargs |-> "1"] ]

\* Every option config.RegisterArgParser adds to the parser.
AllOptions == DeclaredOptions @@ SessionOptions

GlobalDests == DOMAIN AllOptions

\* The defaults of the declared options: [], None, False, False; the
\* verbose flag is off and no logging level is given.
DefaultNamespace ==
    [ plugin |-> << >>, output |-> None, help |-> FALSE, overwrite |-> FALSE,
      verbose |-> FALSE, logging |-> None,
      module |-> NoModule, opts |-> {} ]

\* The destination of a global option string; "" when the string is not a
\* declared global option.
MainDest(tok) ==
    IF \E d \in GlobalDests : tok \in AllOptions[d].flags
    THEN CHOOSE d \in GlobalDests : tok \in AllOptions[d].flags
    ELSE ""

\* Number of consecutive argument strings of args from index k on.
RECURSIVE RunLen(_, _)
RunLen(args, k) ==
    IF k > Len(args) \/ IsOptionString(args[k]) THEN 0
    ELSE 1 + RunLen(args, k + 1)

\* argparse's match_argument: the number of argument strings an action with
\* the given nargs takes from index k on, or -1 when the pattern does not
\* match (an ArgumentError).
ArgCount(nargs, args, k) ==
    CASE nargs = "0" -> 0
      [] nargs = "1" -> IF RunLen(args, k) >= 1 THEN 1 ELSE -1
      [] nargs = "+" -> IF RunLen(args, k) >= 1 THEN RunLen(args, k) ELSE -1

ExpectedMessage(nargs) ==
    IF nargs = "+" THEN "expected at least one argument"
    ELSE "expected one argument"


(***************************************************************************)
(* The command catalogue, plugin.Command.classes.                          *)
(***************************************************************************)
Profiles == { "none", "win", "linux" }

\* The command classes: name, the profiles is_active() accepts, the
\* _interactive flag and the option strings args() declares (each takes
\* one argument).  MyPsList is the class the bundle good.py registers.
Command ==
    [ Command   |-> [name |-> "", active_in |-> Profiles,
                     interactive |-> FALSE, args |-> {}],
      ImageInfo |-> [name |-> "imageinfo", active_in |-> Profiles,
                     interactive |-> FALSE, args |-> {}],
      PsList    |-> [name |-> "pslist", active_in |-> {"win"},
                     interactive |-> FALSE, args |-> {"--pid"}],
      Shell     |-> [name |-> "shell", active_in |-> Profiles,
                     interactive |-> TRUE, args |-> {}],
      MyPsList  |-> [name |-> "pslist", active_in |-> Profiles,
                     interactive |-> FALSE, args |-> {"--proc"}] ]

\* The classes registered when parse_args is called, in registration order.
BuiltinClasses == << "Command", "ImageInfo", "PsList", "Shell" >>

\* The empty dict of parsers.
NoParsers == [n \in {} |-> ""]

(***************************************************************************)
(* RekallArgParser.                                                        *)
(***************************************************************************)
\* An error() that swallows a failure in tolerant mode only.
ErrorSwallowedWhenForced(ig, message) == ig

\* RekallArgParser.error returns without reporting.
ErrorSwallowed(ig, message) == ig \/ message = "too few arguments"

\* RekallArgParser.print_help prints nothing.
PrintHelpSuppressed(ig) == ig

\* RekallArgParser.exit returns instead of leaving the process.
ExitSuppressed(ig) == ig

\* The force argument with which argparse calls parse_known_args: the
\* sub-parsers action and ArgumentParser.parse_args call
\* parser.parse_known_args(arg_strings, namespace), so force keeps its
\* default whatever mode the calling parser is in.
DefaultForce(callerForce) == FALSE

\* A parse in progress: the namespace, the unrecognized strings, whether the
\* sub-command positional is still to be consumed, how the parse stopped
\* ("" while it runs, "exit" on SystemExit, "argerror" on an ArgumentError,
\* "raise" on another exception), the calls of error() and what was printed.
NewRun(ns, pos) ==
    [ ns |-> ns, extras |-> << >>, pos |-> pos, stop |-> "", msg |-> "",
      status |-> 0, none |-> FALSE, errs |-> << >>, out |-> << >> ]

RekallExit(ig, status, r) ==
    IF ExitSuppressed(ig) THEN r
    ELSE [r EXCEPT !.stop = "exit", !.status = status]

RekallPrintHelp(who, ig, r) ==
    IF PrintHelpSuppressed(ig) THEN r
    ELSE [r EXCEPT !.out = Append(@, [parser |-> who, text |-> "help"])]

\* error(message): swallowed, or ArgumentParser.error, which prints the
\* usage and calls self.exit(2, ...).
RekallError(who, ig, message, r) ==
    LET logged == [r EXCEPT !.errs = Append(@,
                       [parser |-> who, message |-> message,
                        ignore_errors |-> ig])]
    IN  IF ErrorSwallowed(ig, message) THEN logged
        ELSE RekallExit(ig, 2,
                 [logged EXCEPT !.out =
                      Append(@, [parser |-> who, text |-> "usage"])])

\* The end of ArgumentParser.parse_known_args: an ArgumentError is handed
\* to self.error() and, when error() returns, the method falls off its
\* except clause and returns None; a missing positional is reported with
\* error("too few arguments") and the parse goes on.
Finish(who, ig, r) ==
    CASE r.stop \in {"exit", "raise"} -> r
      [] r.stop = "argerror" ->
            LET e == RekallError(who, ig, r.msg, [r EXCEPT !.stop = ""])
            IN  IF e.stop = "exit" THEN e ELSE [e EXCEPT !.none = TRUE]
      [] OTHER ->
            IF r.pos THEN RekallError(who, ig, "too few arguments", r)
            ELSE r

\* The sub-parser of command class cls, registered under name who: the
\* help option argparse adds (add_help) and the options of cls.args().
RECURSIVE SubLoop(_, _, _, _, _, _)
SubLoop(cls, who, ig, args, k, r) ==
    IF r.stop # "" \/ k > Len(args) THEN r
    ELSE LET tok == args[k] IN
         IF ~IsOptionString(tok)
         THEN SubLoop(cls, who, ig, args, k + 1,
                      [r EXCEPT !.extras = Append(@, tok)])
         ELSE IF tok \in {"-h", "--help"}
         THEN SubLoop(cls, who, ig, args, k + 1,
                      RekallExit(ig, 0, RekallPrintHelp(who, ig, r)))
         ELSE IF tok \in Command[cls].args
         THEN IF ArgCount("1", args, k + 1) < 0
              THEN [r EXCEPT !.stop = "argerror",
                             !.msg = ExpectedMessage("1")]
              ELSE SubLoop(cls, who, ig, args, k + 2,
                           [r EXCEPT !.ns.opts = @ \cup {<<tok, args[k + 1]>>}])
         ELSE SubLoop(cls, who, ig, args, k + 1,
                      [r EXCEPT !.extras = Append(@, tok)])

\* Every sub-parser tags its result with the same name.
SetDefaultsShell(ns, who) == [ns EXCEPT !.module = "shell"]

\* module_parser.set_defaults(module=cls.name): the parser default is set
\* on the namespace when the attribute is absent.
SetDefaults(ns, who) ==
    IF ns.module = NoModule THEN [ns EXCEPT !.module = who] ELSE ns

\* RekallArgParser.parse_known_args of a sub-parser.
SubParseKnownArgs(cls, who, args, ns, force) ==
    Finish(who, force,
           SubLoop(cls, who, force, args, 1, NewRun(SetDefaults(ns, who), FALSE)))

\* The store and store_true actions of the global options.
Store(ns, d, vals) ==
    CASE d = "plugin"    -> [ns EXCEPT !.plugin = vals]
      [] d = "output"    -> [ns EXCEPT !.output = vals[1]]
      [] d = "help"      -> [ns EXCEPT !.help = TRUE]
      [] d = "overwrite" -> [ns EXCEPT !.overwrite = TRUE]
      [] d = "verbose"   -> [ns EXCEPT !.verbose = TRUE]
      [] d = "logging"   -> [ns EXCEPT !.logging = vals[1]]

\* The sub-parsers action: the first argument string selects the parser,
\* which parses all the strings after it into the same namespace.
TakeSubCommand(ps, force, args, k, r) ==
    LET who  == args[k]
        rest == SubSeq(args, k + 1, Len(args))
    IN  IF who \notin DOMAIN ps
        THEN [r EXCEPT !.stop = "argerror", !.msg = "invalid choice",
                       !.pos = FALSE]
        ELSE LET s == SubParseKnownArgs(ps[who], who, rest, r.ns,
                                        DefaultForce(force))
                 m == [r EXCEPT !.errs = @ \o s.errs, !.out = @ \o s.out,
                                !.pos = FALSE]
             IN  IF s.stop # ""
                 THEN [m EXCEPT !.stop = s.stop, !.status = s.status]
                 ELSE IF s.none
                 THEN [m EXCEPT !.stop = "raise"]
                 ELSE [m EXCEPT !.ns = s.ns, !.extras = @ \o s.extras]

\* ArgumentParser._parse_known_args of the main parser: option strings are
\* consumed with their arguments, an argument string that is no option's
\* argument goes to the sub-commands positional when the parser has one
\* that is not consumed yet, and to the unrecognized strings otherwise.
RECURSIVE MainLoop(_, _, _, _, _)
MainLoop(ps, force, args, k, r) ==
    IF r.stop # "" \/ k > Len(args) THEN r
    ELSE LET tok == args[k] IN
         IF ~IsOptionString(tok)
         THEN IF r.pos
              THEN TakeSubCommand(ps, force, args, k, r)
              ELSE MainLoop(ps, force, args, k + 1,
                            [r EXCEPT !.extras = Append(@, tok)])
         ELSE IF MainDest(tok) = ""
         THEN MainLoop(ps, force, args, k + 1,
                       [r EXCEPT !.extras = Append(@, tok)])
         ELSE LET d == MainDest(tok)
                  n == ArgCount(AllOptions[d].nargs, args, k + 1)
              IN  IF n < 0
                  THEN [r EXCEPT !.stop = "argerror",
                                 !.msg = ExpectedMessage(AllOptions[d].nargs)]
                  ELSE MainLoop(ps, force, args, k + 1 + n,
                                [r EXCEPT !.ns = Store(@, d,
                                     SubSeq(args, k + 1, k + n))])

\* RekallArgParser.parse_known_args of the main parser; hasSub tells
\* whether add_subparsers() was called on it.
ParseKnownArgs(ps, hasSub, args, force) ==
    Finish("main", force,
           MainLoop(ps, force, args, 1, NewRun(DefaultNamespace, hasSub)))

\* parser.parse_args(argv): ArgumentParser.parse_args unpacks the value of
\* self.parse_known_args(args, namespace) and reports what is left over.
ParseArgs(ps, args) ==
    LET ig == DefaultForce(FALSE)
        r  == ParseKnownArgs(ps, TRUE, args, ig)
    IN  IF r.stop # "" THEN r
        ELSE IF r.none THEN [r EXCEPT !.stop = "raise"]
        ELSE IF r.extras # << >>
        THEN RekallError("main", ig, "unrecognized arguments", r)
        ELSE r


(***************************************************************************)
(* The bundles on disk and what importing their units does.                *)
(***************************************************************************)
\* os.access(path, os.R_OK): gone.py and every string that names no file
\* are unreadable.
Readable(path) == path \in PluginFiles \ {"gone.py"}

\* os.path.abspath(path).
AbsPath(path) ==
    CASE path = "good.py"   -> "/plugins/good.py"
      [] path = "bad.py"    -> "/plugins/bad.py"
      [] path = "tweak.py"  -> "/plugins/tweak.py"
      [] path = "arch.zip"  -> "/plugins/arch.zip"
      [] path = "bad.zip"   -> "/plugins/bad.zip"
      [] path = "notes.txt" -> "/plugins/notes.txt"

\* os.path.split(path)[0].
Directory(abs) == "/plugins"

\* os.path.splitext of a file name or of an archive entry: the module name
\* (for an entry, with the separators turned into dots) and the extension.
ModuleName(name) ==
    CASE name = "good.py"       -> "good"
      [] name = "bad.py"        -> "bad"
      [] name = "tweak.py"      -> "tweak"
      [] name = "arch.zip"      -> "arch"
      [] name = "bad.zip"       -> "bad"
      [] name = "notes.txt"     -> "notes"
      [] name = "pkg/first.py"  -> "pkg.first"
      [] name = "pkg/broken.py" -> "pkg.broken"
      [] name = "README.txt"    -> "README"
      [] name = "pkg/last.py"   -> "pkg.last"

Ext(name) ==
    CASE name \in {"good.py", "bad.py", "tweak.py", "pkg/first.py",
                   "pkg/broken.py", "pkg/last.py"} -> ".py"
      [] name \in {"arch.zip", "bad.zip"} -> ".zip"
      [] OTHER -> ".txt"

PYTHON_EXTENSIONS == { ".py", ".pyo", ".pyc" }

\* zipfile.ZipFile(path) raises for a file that is no archive.
OpensAsArchive(path) == path = "arch.zip"

\* zfile.namelist().
NameList(path) ==
    << "pkg/first.py", "pkg/broken.py", "README.txt", "pkg/last.py" >>

\* The units whose top-level code raises an exception (an Exception).
RaisingUnits == { "bad", "pkg.broken" }

\* The units whose top-level code runs sys.path.insert(0, "/opt/lib").
PathChangingUnits == { "tweak" }

\* The command classes a unit registers when its code runs.
UnitClasses(mod) == IF mod = "good" THEN << "MyPsList" >> ELSE << >>

\* Registration in plugin.Command.classes, a dict keyed by class.
RECURSIVE Register(_, _)
Register(cls, new) ==
    IF new = << >> THEN cls
    ELSE Register(IF Head(new) \in Range(cls) THEN cls
                  ELSE Append(cls, Head(new)), Tail(new))

\* __import__(mod) with search path sp: a module already in sys.modules is
\* returned as it is; otherwise the unit's code runs, and a unit that raises
\* is not kept in sys.modules.
ImportUnit(mod, sp, mods, cls) ==
    IF mod \in mods
    THEN [raised |-> FALSE, sysPath |-> sp, sysModules |-> mods,
          classes |-> cls]
    ELSE IF mod \in RaisingUnits
    THEN [raised |-> TRUE, sysPath |-> sp, sysModules |-> mods,
          classes |-> cls]
    ELSE [raised |-> FALSE,
          sysPath |-> IF mod \in PathChangingUnits
                      THEN << "/opt/lib" >> \o sp ELSE sp,
          sysModules |-> mods \cup {mod},
          classes |-> Register(cls, UnitClasses(mod))]

\* sys.path.insert(0, entry) and sys.path.pop(0).
InsertFront(sp, entry) == << entry >> \o sp
PopFront(sp) == Tail(sp)

\* An except clause that handles nothing.
CaughtNever(raised) == FALSE

\* "except Exception" around __import__: the exception of a raising unit
\* is handled there.
Caught(raised) == raised

\* A loop that steps over the path after the one it handled.
NextPathSkipping(k) == k + 2

\* The index of the path the loop of LoadPlugins handles after path k:
\* "continue" and the end of the loop body both go to the next path.
NextPath(k) == k + 1

LogRecord(level, msg, path, idx) ==
    [level |-> level, msg |-> msg, path |-> path, idx |-> idx]


(***************************************************************************)
(* Phase 2: the kept commands and their sub-parsers.                       *)
(***************************************************************************)
\* Every order in which the elements of the set S can be enumerated.
RECURSIVE Orders(_)
Orders(S) ==
    IF S = {} THEN { << >> }
    ELSE UNION { { << x >> \o o : o \in Orders(S \ {x}) } : x \in S }

\* plugin.Command.classes.values(): classes is a dict keyed by class, and a
\* Python 2 dict enumerates its values in an order that is unrelated to the
\* order of insertion.
ValuesOrders(cls) == Orders(Range(cls))

\* A filter that does not look at _interactive.
KeepInteractive(c, prof) ==
    /\ Command[c].name # ""
    /\ prof \in Command[c].active_in

\* The test of lines 282-283.
Keep(c, prof) ==
    /\ Command[c].name # ""
    /\ prof \in Command[c].active_in
    /\ ~Command[c].interactive

RECURSIVE KeptOf(_, _)
KeptOf(order, prof) ==
    IF order = << >> THEN << >>
    ELSE IF Keep(Head(order), prof)
         THEN << Head(order) >> \o KeptOf(Tail(order), prof)
         ELSE KeptOf(Tail(order), prof)

\* The command names in the order of Python's string comparison.
NameOrder == << "", "imageinfo", "pslist", "shell" >>
NameRank(n) == CHOOSE k \in 1..Len(NameOrder) : NameOrder[k] = n

\* sorted(classes, key=lambda x: x.name): the sort is stable, so classes
\* with equal names keep their relative order.
RECURSIVE InsertSorted(_, _)
InsertSorted(sorted, c) ==
    IF sorted = << >> THEN << c >>
    ELSE IF NameRank(Command[Head(sorted)].name) <= NameRank(Command[c].name)
         THEN << Head(sorted) >> \o InsertSorted(Tail(sorted), c)
         ELSE << c >> \o sorted

RECURSIVE SortedByName(_)
SortedByName(cs) ==
    IF cs = << >> THEN << >>
    ELSE InsertSorted(SortedByName(SubSeq(cs, 1, Len(cs) - 1)), cs[Len(cs)])

\* A loop that builds a sub-parser for every class, also for a name that
\* has one.
NeedsParserAlways(ps, name) == TRUE

\* parsers[name] raises KeyError: the name has no sub-parser yet.
NeedsParser(ps, name) == name \notin DOMAIN ps

\* The loop of lines 286-297 over the sorted classes: a class whose name
\* has no sub-parser gets one, and its args() is called on it.
RECURSIVE BuildParsers(_, _)
BuildParsers(sorted, acc) ==
    IF sorted = << >> THEN acc
    ELSE LET c    == Head(sorted)
             name == Command[c].name
         IN  IF NeedsParser(acc.parsers, name)
             THEN BuildParsers(Tail(sorted),
                      [parsers |-> [n \in DOMAIN acc.parsers \cup {name} |->
                                       IF n = name THEN c ELSE acc.parsers[n]],
                       calls |-> Append(acc.calls, c)])
             ELSE BuildParsers(Tail(sorted), acc)

(***************************************************************************)
(* The session state.                                                      *)
(***************************************************************************)
\* A user_session.state in which no key is set.
EmptyState ==
    [ keys |-> {}, plugin |-> << >>, output |-> None, help |-> FALSE,
      overwrite |-> FALSE, verbose |-> FALSE, logging |-> None ]

\* The states a session may be in when parse_args is called: a fresh one,
\* and one whose owner already chose an output file and a logging level.
PriorStates ==
    { EmptyState,
      [EmptyState EXCEPT !.keys = {"output", "logging"},
                         !.output = "prev.txt", !.logging = "INFO"] }

\* config.MergeConfigOptions(state): the default of every declared option
\* is stored under each key the state does not hold yet.
MergeConfigOptions(st) ==
    [ keys      |-> st.keys \cup GlobalDests,
      plugin    |-> IF "plugin" \in st.keys THEN st.plugin
                    ELSE DefaultNamespace.plugin,
      output    |-> IF "output" \in st.keys THEN st.output
                    ELSE DefaultNamespace.output,
      help      |-> IF "help" \in st.keys THEN st.help
                    ELSE DefaultNamespace.help,
      overwrite |-> IF "overwrite" \in st.keys THEN st.overwrite
                    ELSE DefaultNamespace.overwrite,
      verbose   |-> IF "verbose" \in st.keys THEN st.verbose
                    ELSE DefaultNamespace.verbose,
      logging   |-> IF "logging" \in st.keys THEN st.logging
                    ELSE DefaultNamespace.logging ]

\* The verbose flag leaves the logging level as it was parsed.
KeepLogging(ns) == ns

\* Lines 238-239: with the verbose flag set, known_args.logging = "DEBUG".
ForceLogging(ns) ==
    IF ns.verbose THEN [ns EXCEPT !.logging = "DEBUG"] ELSE ns

\* state.Set(arg, value) raises: the session refuses an output file in a
\* read-only directory.
SetRaises(arg, value) == arg = "output" /\ value = "ro/out.txt"

\* The loop of lines 244-245 after state.Set(arg, value) was called for the
\* attributes in done only.
SetSome(st, ns, done) ==
    [ keys      |-> st.keys \cup done,
      plugin    |-> IF "plugin" \in done THEN ns.plugin ELSE st.plugin,
      output    |-> IF "output" \in done THEN ns.output ELSE st.output,
      help      |-> IF "help" \in done THEN ns.help ELSE st.help,
      overwrite |-> IF "overwrite" \in done THEN ns.overwrite
                    ELSE st.overwrite,
      verbose   |-> IF "verbose" \in done THEN ns.verbose ELSE st.verbose,
      logging   |-> IF "logging" \in done THEN ns.logging ELSE st.logging ]

\* state.Set(arg, value) for every attribute of known_args.
SetParsed(st, ns) == SetSome(st, ns, GlobalDests)

\* The exit of the transaction on user_session.state never suppresses the
\* exception that left the block.
TransactionSuppresses(failed) == FALSE

\* A failure inside the block that is not seen outside it.
AbortsNever(failed) == FALSE

\* Lines 241-245 and 269: no handler surrounds the with block, so an
\* exception raised inside it leaves LoadProfileIntoSession and
\* parse_args.
AbortsPhase1(failed) == failed /\ ~TransactionSuppresses(failed)

\* The guesser runs whatever the session holds.
ShouldGuessAlways(prof) == TRUE

\* Line 247: user_session.profile is None.
ShouldGuess(prof) == prof = "none"


(***************************************************************************)
(* The invocations.                                                        *)
(***************************************************************************)
PathLists == SeqsUpTo(PluginFiles, MaxPaths)

\* What follows the bundle paths on the command line.
Tails ==
    { << >>,
      << "-h" >>,
      << "--bogus" >>,
      << "--overwrite", "imageinfo" >>,
      << "--overwrite", "nosuch" >>,
      << "--overwrite", "pslist", "--pid", "1" >>,
      << "--overwrite", "pslist", "--pid" >>,
      << "--overwrite", "pslist", "--proc", "x" >>,
      << "--help", "imageinfo" >>,
      << "--output", "out.txt", "imageinfo", "-h" >>,
      << "--output" >>,
      << "--verbose", "imageinfo" >>,
      << "--logging", "INFO", "imageinfo" >>,
      << "--logging", "INFO", "--verbose", "imageinfo" >> }

\* Invocations without --plugin, and the invocation with two --plugin
\* flags followed by the command name.
OtherInvocations ==
    { << "imageinfo" >>,
      << "pslist", "--pid", "1" >>,
      << "imageinfo", "--plugin", "good.py" >>,
      << "--plugin", "bad.py", "--plugin", "good.py", "imageinfo" >>,
      << "--plugin", "bad.py", "good.py", "--overwrite", "imageinfo" >>,
      << "--overwrite", "--output", "ro/out.txt", "imageinfo" >> }

ArgvSet ==
    { << "--plugin" >> \o ps \o t : ps \in PathLists, t \in Tails }
        \cup Tails \cup OtherInvocations

NoResult == [none |-> TRUE, ns |-> DefaultNamespace, extras |-> << >>]

\* No coercer and no add_argument is being called.
NoCall == [kind |-> "none"]

(***************************************************************************)
(* parse_args.                                                             *)
(***************************************************************************)
Init ==
    /\ argv \in ArgvSet
    /\ pc = "phase1"
    /\ outcome = "running"
    /\ exitStatus = 0
    /\ profile \in {"none", "win"}
    /\ guessCalls = 0
    /\ state \in PriorStates
    /\ paths = << >>
    /\ i = 1
    /\ j = 0
    /\ sysPath = << "/usr/lib/python2.7" >>
    /\ sysPathAtCall = << "/usr/lib/python2.7" >>
    /\ sysModules = {}
    /\ log = << >>
    /\ attempts = << >>
    /\ classes = BuiltinClasses
    /\ kept = << >>
    /\ parsers = NoParsers
    /\ argsCalls = << >>
    /\ ignore_errors = FALSE
    /\ result = NoResult
    /\ errors = << >>
    /\ printed = << >>
    /\ call = NoCall
    /\ ret = NoCall

\* The process ends with SystemExit(status).
Exits(status) ==
    /\ outcome' = "exit"
    /\ exitStatus' = status
    /\ pc' = "done"

\* An exception leaves parse_args.
Raises ==
    /\ outcome' = "raised"
    /\ pc' = "done"
    /\ UNCHANGED exitStatus

\* Lines 258-265 and 235-245: the parser of the global options is built,
\* parser.parse_known_args(args=argv) runs with force left at False, the
\* verbose flag forces the logging level, and inside the transaction the
\* defaults are merged and every parsed option is stored in the session
\* state.  When a state.Set raises, the attributes stored before it are
\* any of the others (the order of known_args.__dict__.items() is that of
\* a dict).
Phase1Parse ==
    /\ pc = "phase1"
    /\ LET force == FALSE
           r     == ParseKnownArgs(NoParsers, FALSE, argv, force)
           ns    == ForceLogging(r.ns)
           bad   == { d \in GlobalDests : SetRaises(d, ns[d]) }
       IN  /\ ignore_errors' = force
           /\ errors' = errors \o r.errs
           /\ printed' = printed \o r.out
           /\ IF r.stop = "exit"
              THEN Exits(r.status) /\ UNCHANGED state
              ELSE IF r.stop = "raise" \/ r.none
              THEN Raises /\ UNCHANGED state
              ELSE /\ \E done \in IF bad = {} THEN {GlobalDests}
                                   ELSE SUBSET (GlobalDests \ bad) :
                          state' = SetSome(MergeConfigOptions(state), ns, done)
                   /\ IF AbortsPhase1(bad # {})
                      THEN Raises
                      ELSE /\ pc' = "guess"
                           /\ UNCHANGED << outcome, exitStatus >>
    /\ UNCHANGED << argv, profile, guessCalls, paths, i, j, sysPath,
                    sysPathAtCall, sysModules, log, attempts, classes, kept,
                    parsers, argsCalls, result >>
    /\ UNCHANGED << call, ret >>

\* Lines 247-253: the guesser updates the session when it has no profile
\* (it may leave it without one); then LoadPlugins is called with
\* user_session.state.plugin.
GuessProfile ==
    /\ pc = "guess"
    /\ IF ShouldGuess(profile)
       THEN /\ profile' \in {"none", "linux"}
            /\ guessCalls' = guessCalls + 1
       ELSE UNCHANGED << profile, guessCalls >>
    /\ paths' = state.plugin
    /\ i' = 1
    /\ j' = 0
    /\ sysPathAtCall' = sysPath
    /\ pc' = "load"
    /\ UNCHANGED << argv, outcome, exitStatus, state, sysPath, sysModules,
                    log, attempts, classes, kept, parsers, argsCalls,
                    ignore_errors, result, errors, printed >>
    /\ UNCHANGED << call, ret >>

\* Lines 184-230, one pass of the loop of LoadPlugins: an unreadable path,
\* a single-module file (imported here), an archive (opened here) or a file
\* with another extension.
LoadPath ==
    /\ pc = "load"
    /\ j = 0
    /\ i <= Len(paths)
    /\ LET path == paths[i] IN
       IF ~Readable(path)
       THEN /\ log' = Append(log, LogRecord("error", "Unable to find", path, i))
            /\ i' = NextPath(i)
            /\ UNCHANGED << pc, outcome, exitStatus, j, sysPath, sysModules,
                            attempts, classes >>
       ELSE IF Ext(path) \in PYTHON_EXTENSIONS
       THEN LET abs == AbsPath(path)
                sp  == InsertFront(sysPath, Directory(abs))
                mod == ModuleName(path)
                r   == ImportUnit(mod, sp, sysModules, classes)
                info == LogRecord("info", "Loading user plugin", abs, i)
            IN  /\ sysPath' = PopFront(r.sysPath)
                /\ sysModules' = r.sysModules
                /\ classes' = r.classes
                /\ attempts' = Append(attempts,
                                  [idx |-> i, unit |-> mod, ok |-> ~r.raised,
                                   seen |-> sp])
                /\ IF r.raised /\ ~Caught(r.raised)
                   THEN /\ Raises
                        /\ log' = Append(log, info)
                        /\ UNCHANGED i
                   ELSE /\ log' = IF r.raised
                                  THEN log \o << info,
                                         LogRecord("error",
                                            "Error loading user plugin", abs, i) >>
                                  ELSE Append(log, info)
                        /\ i' = NextPath(i)
                        /\ UNCHANGED << pc, outcome, exitStatus >>
                /\ UNCHANGED j
       ELSE IF Ext(path) = ".zip"
       THEN IF ~OpensAsArchive(path)
            THEN /\ Raises
                 /\ UNCHANGED << i, j, sysPath, sysModules, log, attempts,
                                 classes >>
            ELSE /\ sysPath' = InsertFront(sysPath, AbsPath(path))
                 /\ log' = Append(log, LogRecord("info",
                              "Loading user plugin archive", AbsPath(path), i))
                 /\ j' = 1
                 /\ UNCHANGED << pc, outcome, exitStatus, i, sysModules,
                                 attempts, classes >>
       ELSE /\ log' = Append(log, LogRecord("error",
                         "Plugin has incorrect extension", AbsPath(path), i))
            /\ i' = NextPath(i)
            /\ UNCHANGED << pc, outcome, exitStatus, j, sysPath, sysModules,
                            attempts, classes >>
    /\ UNCHANGED << argv, profile, guessCalls, state, paths, sysPathAtCall,
                    kept, parsers, argsCalls, ignore_errors, result, errors,
                    printed >>
    /\ UNCHANGED << call, ret >>

\* Lines 213-224: one entry of the archive's name list.
ImportEntry ==
    /\ pc = "load"
    /\ j >= 1
    /\ j <= Len(NameList(paths[i]))
    /\ LET name == NameList(paths[i])[j] IN
       IF Ext(name) \in PYTHON_EXTENSIONS
       THEN LET mod == ModuleName(name)
                r   == ImportUnit(mod, sysPath, sysModules, classes)
            IN  /\ sysModules' = r.sysModules
                /\ classes' = r.classes
                /\ attempts' = Append(attempts,
                                  [idx |-> i, unit |-> mod, ok |-> ~r.raised,
                                   seen |-> sysPath])
                /\ IF r.raised /\ ~Caught(r.raised)
                   THEN /\ Raises
                        /\ sysPath' = PopFront(r.sysPath)
                        /\ UNCHANGED << j, log >>
                   ELSE /\ sysPath' = r.sysPath
                        /\ log' = IF r.raised
                                  THEN Append(log, LogRecord("error",
                                          "Error loading user plugin",
                                          AbsPath(paths[i]), i))
                                  ELSE log
                        /\ j' = j + 1
                        /\ UNCHANGED << pc, outcome, exitStatus >>
       ELSE /\ j' = j + 1
            /\ UNCHANGED << pc, outcome, exitStatus, sysPath, sysModules,
                            log, attempts, classes >>
    /\ UNCHANGED << argv, profile, guessCalls, state, paths, i,
                    sysPathAtCall, kept, parsers, argsCalls, ignore_errors,
                    result, errors, printed >>
    /\ UNCHANGED << call, ret >>

\* Lines 226-227: the finally clause after the last entry of the archive.
CloseArchive ==
    /\ pc = "load"
    /\ j >= 1
    /\ j > Len(NameList(paths[i]))
    /\ sysPath' = PopFront(sysPath)
    /\ j' = 0
    /\ i' = NextPath(i)
    /\ UNCHANGED << argv, pc, outcome, exitStatus, profile, guessCalls, state,
                    paths, sysPathAtCall, sysModules, log, attempts, classes,
                    kept, parsers, argsCalls, ignore_errors, result, errors,
                    printed >>
    /\ UNCHANGED << call, ret >>

\* The loop of LoadPlugins is over: LoadPlugins and LoadProfileIntoSession
\* return, and lines 272-284 enumerate the catalogue and filter it.
Enumerate ==
    /\ pc = "load"
    /\ j = 0
    /\ i > Len(paths)
    /\ \E order \in ValuesOrders(classes) : kept' = KeptOf(order, profile)
    /\ pc' = "build"
    /\ UNCHANGED << argv, outcome, exitStatus, profile, guessCalls, state,
                    paths, i, j, sysPath, sysPathAtCall, sysModules, log,
                    attempts, classes, parsers, argsCalls, ignore_errors,
                    result, errors, printed >>
    /\ UNCHANGED << call, ret >>

\* Lines 286-297: one sub-parser per name of a kept class.
BuildSubparsers ==
    /\ pc = "build"
    /\ LET b == BuildParsers(SortedByName(kept),
                             [parsers |-> NoParsers, calls |-> << >>])
       IN  /\ parsers' = b.parsers
           /\ argsCalls' = b.calls
    /\ pc' = "parse"
    /\ UNCHANGED << argv, outcome, exitStatus, profile, guessCalls, state,
                    paths, i, j, sysPath, sysPathAtCall, sysModules, log,
                    attempts, classes, kept, ignore_errors, result, errors,
                    printed >>
    /\ UNCHANGED << call, ret >>

\* Line 300: result = parser.parse_args(argv).
FinalParse ==
    /\ pc = "parse"
    /\ LET r == ParseArgs(parsers, argv)
       IN  /\ ignore_errors' = DefaultForce(FALSE)
           /\ errors' = errors \o r.errs
           /\ printed' = printed \o r.out
           /\ IF r.stop = "exit"
              THEN Exits(r.status) /\ UNCHANGED result
              ELSE IF r.stop = "raise"
              THEN Raises /\ UNCHANGED result
              ELSE /\ result' = [none |-> FALSE, ns |-> r.ns,
                                 extras |-> r.extras]
                   /\ pc' = "help"
                   /\ UNCHANGED << outcome, exitStatus >>
    /\ UNCHANGED << argv, profile, guessCalls, state, paths, i, j, sysPath,
                    sysPathAtCall, sysModules, log, attempts, classes, kept,
                    parsers, argsCalls >>
    /\ UNCHANGED << call, ret >>

\* A help test that is never true.
HelpNeverRequested(res) == FALSE

\* getattr(result, "help", None).
HelpRequested(res) == res.ns.help

\* The argument of sys.exit on line 305.
HelpExitStatus == -1

\* Lines 303-307: with the help flag set, parser.print_help() and
\* sys.exit(-1); otherwise the result is returned.
HelpOrReturn ==
    /\ pc = "help"
    /\ IF HelpRequested(result)
       THEN /\ printed' = RekallPrintHelp("main", ignore_errors,
                              [out |-> printed]).out
            /\ Exits(HelpExitStatus)
       ELSE /\ outcome' = "returned"
            /\ pc' = "done"
            /\ UNCHANGED << exitStatus, printed >>
    /\ UNCHANGED << argv, profile, guessCalls, state, paths, i, j, sysPath,
                    sysPathAtCall, sysModules, log, attempts, classes, kept,
                    parsers, argsCalls, ignore_errors, result, errors >>
    /\ UNCHANGED << call, ret >>

(***************************************************************************)
(* RekallArgParser used directly: a caller holds the combined parser that  *)
(* lines 258-297 build and calls parse_known_args on it, with force set or *)
(* not.                                                                    *)
(***************************************************************************)
ParserInit ==
    /\ argv = << >>
    /\ pc = "parser"
    /\ outcome = "running"
    /\ exitStatus = 0
    /\ profile \in Profiles
    /\ guessCalls = 0
    /\ state = EmptyState
    /\ paths = << >>
    /\ i = 1
    /\ j = 0
    /\ sysPath = << "/usr/lib/python2.7" >>
    /\ sysPathAtCall = << "/usr/lib/python2.7" >>
    /\ sysModules = {}
    /\ log = << >>
    /\ attempts = << >>
    /\ classes = BuiltinClasses
    /\ \E order \in ValuesOrders(classes) : kept = KeptOf(order, profile)
    /\ LET b == BuildParsers(SortedByName(kept),
                             [parsers |-> NoParsers, calls |-> << >>])
       IN  /\ parsers = b.parsers
           /\ argsCalls = b.calls
    /\ ignore_errors = FALSE
    /\ result = NoResult
    /\ errors = << >>
    /\ printed = << >>
    /\ call = NoCall
    /\ ret = NoCall

\* Lines 160-166: parser.parse_known_args(args, force=force).
CallParseKnownArgs ==
    /\ pc = "parser"
    /\ \E args \in ArgvSet, force \in BOOLEAN :
          LET r == ParseKnownArgs(parsers, TRUE, args, force)
          IN  /\ argv' = args
              /\ ignore_errors' = force
              /\ errors' = r.errs
              /\ printed' = r.out
              /\ result' = IF r.stop = "" /\ ~r.none
                           THEN [none |-> FALSE, ns |-> r.ns,
                                 extras |-> r.extras]
                           ELSE NoResult
              /\ IF r.stop = "exit" THEN Exits(r.status)
                 ELSE IF r.stop = "raise" THEN Raises
                 ELSE /\ outcome' = "returned"
                      /\ pc' = "done"
                      /\ UNCHANGED exitStatus
    /\ UNCHANGED << profile, guessCalls, state, paths, i, j, sysPath,
                    sysPathAtCall, sysModules, log, attempts, classes, kept,
                    parsers, argsCalls >>
    /\ UNCHANGED << call, ret >>

ParserNext == CallParseKnownArgs

ParserSpec == ParserInit /\ [][ParserNext]_vars

Next ==
    \/ Phase1Parse
    \/ GuessProfile
    \/ LoadPath
    \/ ImportEntry
    \/ CloseArchive
    \/ Enumerate
    \/ BuildSubparsers
    \/ FinalParse
    \/ HelpOrReturn

Spec == Init /\ [][Next]_vars


(***************************************************************************)
(* The coercers and MockArgParser.  A Python string is the sequence of its *)
(* characters.                                                             *)
(***************************************************************************)
\* The characters of the tokens handed to IntParser.
TokenChars == { "0", "1", "x", "k", "m", "b", "K", "M", "z" }

\* The digits int() accepts in base 10, and the further ones in base 16,
\* each at the position of its value plus one.
DecimalDigits == << "0", "1", "2", "3", "4", "5", "6", "7", "8", "9" >>

HexLower == DecimalDigits \o << "a", "b", "c", "d", "e", "f" >>

HexUpper == DecimalDigits \o << "A", "B", "C", "D", "E", "F" >>

IsDigit(c, base) ==
    IF base = 16 THEN c \in Range(HexLower) \cup Range(HexUpper)
    ELSE c \in Range(DecimalDigits)

DigitValue(c) ==
    IF c \in Range(HexLower)
    THEN (CHOOSE n \in 1..Len(HexLower) : HexLower[n] = c) - 1
    ELSE (CHOOSE n \in 1..Len(HexUpper) : HexUpper[n] = c) - 1

\* str.lower() on one character.
LowerChar(c) ==
    CASE c = "K" -> "k"
      [] c = "M" -> "m"
      [] c = "B" -> "b"
      [] c = "X" -> "x"
      [] OTHER -> c

\* str.lower().
Lower(str) == [n \in 1..Len(str) |-> LowerChar(str[n])]

\* str.startswith(prefix).
StartsWith(str, prefix) ==
    /\ Len(str) >= Len(prefix)
    /\ SubSeq(str, 1, Len(prefix)) = prefix

\* The alternation (mb|kb|m|k) tried at the character after the first p
\* ones: the first alternative that matches, << >> when none does.
SuffixAt(str, p) ==
    LET rest == SubSeq(str, p + 1, Len(str)) IN
    CASE StartsWith(rest, << "m", "b" >>) -> << "m", "b" >>
      [] StartsWith(rest, << "k", "b" >>) -> << "k", "b" >>
      [] StartsWith(rest, << "m" >>) -> << "m" >>
      [] StartsWith(rest, << "k" >>) -> << "k" >>
      [] OTHER -> << >>

\* re.search("(.*)(mb|kb|m|k)", value): the greedy (.*) takes the longest
\* prefix after which an alternative matches; what follows the match is
\* not looked at.
SuffixSearch(value) ==
    LET ps == { p \in 0..Len(value) : SuffixAt(value, p) # << >> } IN
    IF ps = {} THEN [found |-> FALSE, g1 |-> << >>, g2 |-> << >>]
    ELSE LET p == CHOOSE q \in ps : \A o \in ps : o <= q
         IN  [found |-> TRUE, g1 |-> SubSeq(value, 1, p),
              g2 |-> SuffixAt(value, p)]

\* Lines 63-66: the multiplier of a suffix.
Multiplier(suffix) ==
    IF suffix \in { << "m", "b" >>, << "m" >> } THEN 1024 * 1024
    ELSE IF suffix \in { << "k", "b" >>, << "k" >> } THEN 1024
    ELSE 1

\* The number written with the digits digs in the given base.
RECURSIVE Number(_, _)
Number(digs, base) ==
    IF digs = << >> THEN 0
    ELSE Number(SubSeq(digs, 1, Len(digs) - 1), base) * base
             + DigitValue(digs[Len(digs)])

\* int(value) and int(value, 16) on a value that starts with "0x": the
\* digits that are read, << >> when the call raises ValueError.
IntDigits(value) ==
    LET hex  == StartsWith(value, << "0", "x" >>)
        digs == IF hex THEN SubSeq(value, 3, Len(value)) ELSE value
        base == IF hex THEN 16 ELSE 10
    IN  IF digs # << >> /\ \A n \in 1..Len(digs) : IsDigit(digs[n], base)
        THEN digs ELSE << >>

\* The result of a coercer: a value, or ArgumentError.
Invalid == [ok |-> FALSE, value |-> 0]

\* IntParser.parse_int, lines 56-76.
parse_int(token) ==
    LET m          == SuffixSearch(token)
        value      == IF m.found THEN m.g1 ELSE token
        multiplier == IF m.found THEN Multiplier(Lower(m.g2)) ELSE 1
        base       == IF StartsWith(value, << "0", "x" >>) THEN 16 ELSE 10
    IN  IF IntDigits(value) = << >> THEN Invalid
        ELSE [ok |-> TRUE,
              value |-> Number(IntDigits(value), base) * multiplier]

\* A split that cuts nowhere.
SplitNever(str) == << str >>

\* str.split(","): the pieces between the commas, in order; one piece,
\* maybe empty, when the string holds no comma.
RECURSIVE Split(_)
Split(str) ==
    IF \A n \in 1..Len(str) : str[n] # "," THEN << str >>
    ELSE LET c == CHOOSE n \in 1..Len(str) :
                      str[n] = "," /\ \A o \in 1..(n - 1) : str[o] # ","
         IN  << SubSeq(str, 1, c - 1) >> \o Split(SubSeq(str, c + 1, Len(str)))

\* Lines 99-100: result.extend of the parsed pieces of every value; the
\* first ArgumentError leaves the loop.
RECURSIVE ExtendAll(_, _)
ExtendAll(pieces, acc) ==
    IF pieces = << >> THEN [ok |-> TRUE, value |-> acc]
    ELSE LET r == parse_int(Head(pieces))
         IN  IF r.ok THEN ExtendAll(Tail(pieces), Append(acc, r.value))
             ELSE Invalid

RECURSIVE Flatten(_)
Flatten(seqs) ==
    IF seqs = << >> THEN << >> ELSE Head(seqs) \o Flatten(Tail(seqs))

\* ArrayIntParser.__call__, lines 94-102: values is a string (bare) or a
\* list of strings.
ArrayIntParserCall(values, bare) ==
    LET vs == IF bare THEN << values >> ELSE values
    IN  ExtendAll(Flatten([n \in 1..Len(vs) |-> Split(vs[n])]), << >>)

\* The magnitude sub-tokens a caller joins with commas or passes apart.
SubTokens ==
    { << "1" >>, << "1", "k" >>, << "0", "x", "1", "b" >>,
      << "1", "m", "b" >>, << "1", "K" >> }

\* The values the command line gives ArrayIntParser for the sub-tokens
\* subs: joined[n] tells whether a comma joins sub-token n to the next one
\* in the same token.
RECURSIVE Grouped(_, _)
Grouped(subs, joined) ==
    IF Len(subs) <= 1 THEN subs
    ELSE LET rest == Grouped(Tail(subs), [n \in 1..(Len(joined) - 1) |->
                                              joined[n + 1]])
         IN  IF joined[1]
             THEN << Head(subs) \o << "," >> \o Head(rest) >> \o Tail(rest)
             ELSE << Head(subs) >> \o rest

\* Flag strings and destination names handed to MockArgParser.add_argument;
\* << >> is the default "".
FlagStrings ==
    { << >>, << "-", "p" >>, << "-", "-", "p", "i", "d" >>,
      << "-", "-", "p", "-", "n" >>, << "-", "-", "a", "-" >> }

DestStrings == { << >>, << "d" >>, << "p", "i", "d" >> }

\* The short flag first, whatever the other arguments are.
FlagShortFirst(short_flag, long_flag, dest) ==
    IF short_flag # << >> THEN short_flag
    ELSE IF long_flag # << >> THEN long_flag
    ELSE dest

\* Lines 119-126: the string the argument name is made from.
Flag(short_flag, long_flag, dest) ==
    IF StartsWith(short_flag, << "-", "-" >>) THEN short_flag
    ELSE IF StartsWith(long_flag, << "-", "-" >>) THEN long_flag
    ELSE IF dest # << >> THEN dest
    ELSE short_flag

\* str.strip("-"): the dashes at both ends are removed.
RECURSIVE Strip(_)
Strip(str) ==
    IF str = << >> THEN str
    ELSE IF Head(str) = "-" THEN Strip(Tail(str))
    ELSE IF str[Len(str)] = "-" THEN Strip(SubSeq(str, 1, Len(str) - 1))
    ELSE str

\* str.replace("-", "_").
Replace(str) == [n \in 1..Len(str) |-> IF str[n] = "-" THEN "_" ELSE str[n]]

\* Line 130: arg_name = flag.strip("-").replace("-", "_").
ArgName(short_flag, long_flag, dest) ==
    Replace(Strip(Flag(short_flag, long_flag, dest)))

(***************************************************************************)
(* The coercers and add_argument called directly, as argparse and the      *)
(* command classes call them.                                              *)
(***************************************************************************)
IntCalls ==
    { [kind |-> "int", token |-> t] : t \in SeqsUpTo(TokenChars, MaxTokenLen) }

\* The sub-tokens, the tokens they arrive in, and whether the action is
\* handed a bare string, which argparse does for a single token only.
ArrayCallsOf(ss) ==
    UNION { { [kind |-> "array", subs |-> ss, values |-> Grouped(ss, jn),
               bare |-> b] :
                 b \in IF Len(Grouped(ss, jn)) = 1 THEN BOOLEAN ELSE {FALSE} } :
            jn \in [1..(Len(ss) - 1) -> BOOLEAN] }

ArrayCalls == UNION { ArrayCallsOf(ss) : ss \in SeqsUpTo(SubTokens, MaxSubs) }

MockCalls ==
    { [kind |-> "mock", short_flag |-> sf, long_flag |-> lf, dest |-> d] :
        sf \in FlagStrings, lf \in FlagStrings, d \in DestStrings }

CoerceInit ==
    /\ argv = << >>
    /\ pc = "coerce"
    /\ outcome = "running"
    /\ exitStatus = 0
    /\ profile = "none"
    /\ guessCalls = 0
    /\ state = EmptyState
    /\ paths = << >>
    /\ i = 1
    /\ j = 0
    /\ sysPath = << "/usr/lib/python2.7" >>
    /\ sysPathAtCall = << "/usr/lib/python2.7" >>
    /\ sysModules = {}
    /\ log = << >>
    /\ attempts = << >>
    /\ classes = BuiltinClasses
    /\ kept = << >>
    /\ parsers = NoParsers
    /\ argsCalls = << >>
    /\ ignore_errors = FALSE
    /\ result = NoResult
    /\ errors = << >>
    /\ printed = << >>
    /\ call \in IntCalls \cup ArrayCalls \cup MockCalls
    /\ ret = NoCall

\* Lines 78-79: IntParser.__call__ stores parse_int(values), or the
\* ArgumentError leaves it.
CallIntParser ==
    /\ pc = "coerce"
    /\ call.kind = "int"
    /\ ret' = parse_int(call.token)
    /\ pc' = "done"
    /\ UNCHANGED << argv, outcome, exitStatus, profile, guessCalls, state, paths,
                    i, j, sysPath, sysPathAtCall, sysModules, log, attempts,
                    classes, kept, parsers, argsCalls, ignore_errors, result,
                    errors, printed, call >>

\* Lines 94-102: ArrayIntParser.__call__.
CallArrayIntParser ==
    /\ pc = "coerce"
    /\ call.kind = "array"
    /\ ret' = ArrayIntParserCall(IF call.bare THEN call.values[1]
                                 ELSE call.values, call.bare)
    /\ pc' = "done"
    /\ UNCHANGED << argv, outcome, exitStatus, profile, guessCalls, state, paths,
                    i, j, sysPath, sysPathAtCall, sysModules, log, attempts,
                    classes, kept, parsers, argsCalls, ignore_errors, result,
                    errors, printed, call >>

\* Lines 118-132: MockArgParser.add_argument records the argument name.
CallAddArgument ==
    /\ pc = "coerce"
    /\ call.kind = "mock"
    /\ ret' = [ok |-> TRUE,
               value |-> ArgName(call.short_flag, call.long_flag, call.dest)]
    /\ pc' = "done"
    /\ UNCHANGED << argv, outcome, exitStatus, profile, guessCalls, state, paths,
                    i, j, sysPath, sysPathAtCall, sysModules, log, attempts,
                    classes, kept, parsers, argsCalls, ignore_errors, result,
                    errors, printed, call >>

CoerceNext ==
    \/ CallIntParser
    \/ CallArrayIntParser
    \/ CallAddArgument

CoerceSpec == CoerceInit /\ [][CoerceNext]_vars

(***************************************************************************)
(* Bundle loading: order, failure isolation, the import search path.       *)
(***************************************************************************)
\* Phase 2 has begun: the catalogue was enumerated (ImageInfo is kept in
\* every session, so the list of kept classes is not empty afterwards).
Phase2Begun == pc \in {"build", "parse", "help"} \/ (pc = "done" /\ kept # << >>)

ErrorLogged(k) ==
    \E n \in 1..Len(log) : log[n].idx = k /\ log[n].level = "error"

ImportedOk(k) ==
    \E n \in 1..Len(attempts) : attempts[n].idx = k /\ attempts[n].ok

\* C1: the catalogue is enumerated only after LoadPlugins has attempted
\* every path of the plugin list phase 1 stored in the session state: when
\* phase 2 has begun, the loop is past the last path of state.plugin, no
\* archive is open, and every path has left a log record and has ended in a
\* successful import or in a logged error.
C1_PluginsBeforeEnumeration ==
    Phase2Begun =>
        /\ paths = state.plugin
        /\ i > Len(paths)
        /\ j = 0
        /\ \A k \in 1..Len(paths) :
              /\ \E n \in 1..Len(log) : log[n].idx = k
              /\ ErrorLogged(k) \/ ImportedOk(k)

\* Phase 2 begins after a list of two paths, one that failed and one that
\* was imported.
C1_Witness ==
    /\ pc = "build"
    /\ Len(paths) = 2
    /\ ErrorLogged(1)
    /\ ImportedOk(2)

\* The units LoadPlugins has to import for path k, in order.
UnitsOfPath(path) ==
    IF ~Readable(path) THEN << >>
    ELSE IF Ext(path) \in PYTHON_EXTENSIONS THEN << ModuleName(path) >>
    ELSE IF Ext(path) = ".zip" /\ OpensAsArchive(path)
    THEN LET names == NameList(path)
             F[n \in 0..Len(names)] ==
                 IF n = 0 THEN << >>
                 ELSE IF Ext(names[n]) \in PYTHON_EXTENSIONS
                      THEN Append(F[n - 1], ModuleName(names[n]))
                      ELSE F[n - 1]
         IN  F[Len(names)]
    ELSE << >>

RECURSIVE UnitsOfPaths(_, _)
UnitsOfPaths(ps, n) ==
    IF n = 0 THEN << >>
    ELSE UnitsOfPaths(ps, n - 1) \o UnitsOfPath(ps[n])

AttemptedUnits == [n \in 1..Len(attempts) |-> attempts[n].unit]

FailedAttempts == { n \in 1..Len(attempts) : ~attempts[n].ok }

ImportErrorRecords ==
    { n \in 1..Len(log) : log[n].msg = "Error loading user plugin" }

\* C2: a unit that raises on import is caught and logged, and every later
\* unit is still attempted: no exception leaves LoadPlugins from an import,
\* every failed import has its error record, and once the loop is over the
\* attempts are, in order, every importable unit of every path of the list.
C2_FailureIsolation ==
    /\ Cardinality(ImportErrorRecords) = Cardinality(FailedAttempts)
    /\ \A n \in FailedAttempts : ErrorLogged(attempts[n].idx)
    /\ (outcome = "raised" /\ attempts # << >>) =>
           attempts[Len(attempts)].idx < i
    /\ (pc = "load" /\ j = 0) =>
           AttemptedUnits = UnitsOfPaths(paths, i - 1)
    /\ Phase2Begun => AttemptedUnits = UnitsOfPaths(paths, Len(paths))

\* The archive with a raising entry, then a single-module file: the entry
\* after the raising one and the file were both imported.
C2_Witness ==
    /\ pc = "build"
    /\ paths = << "arch.zip", "good.py" >>
    /\ Len(attempts) = 4
    /\ ~attempts[2].ok
    /\ attempts[3].ok
    /\ attempts[3].idx = 1
    /\ attempts[4].ok

\* C3: LoadPlugins returns normally for every list of paths: no exception
\* leaves it while a path of the list is still to be handled.
C3_LoadPluginsReturns == ~(outcome = "raised" /\ i <= Len(paths))

\* C4: outside an archive the import search path is the one LoadPlugins
\* was called with, and every import runs with that path plus the location
\* of its own bundle in front.
C4_SearchPathRestored ==
    /\ j = 0 => sysPath = sysPathAtCall
    /\ \A n \in 1..Len(attempts) : Tail(attempts[n].seen) = sysPathAtCall


(***************************************************************************)
(* Parse failures and the modes of RekallArgParser.                        *)
(***************************************************************************)
TooFewErrors ==
    { n \in 1..Len(errors) : errors[n].message = "too few arguments" }

\* The failures error() has to report: strict mode, and another message
\* than "too few arguments".
ReportedErrors ==
    { n \in 1..Len(errors) :
         ~errors[n].ignore_errors /\ errors[n].message # "too few arguments" }

UsagePrints == { n \in 1..Len(printed) : printed[n].text = "usage" }

\* C5 as stated: a "too few arguments" failure in strict mode is reported
\* with the usage text and ends the process.
C5_TooFewReportedWhenStrict ==
    (pc = "done" /\ \E n \in TooFewErrors : ~errors[n].ignore_errors) =>
        /\ outcome = "exit"
        /\ UsagePrints # {}

\* C5, amended: error() swallows "too few arguments" in strict mode as in
\* tolerant mode; every other failure of a strict parse prints the usage
\* once and ends the process with status 2, being the last call of error().
C5_TooFewSwallowedInBothModes ==
    pc = "done" =>
        /\ Cardinality(UsagePrints) = Cardinality(ReportedErrors)
        /\ ReportedErrors # {} <=> (outcome = "exit" /\ exitStatus = 2)
        /\ \A n \in ReportedErrors : n = Len(errors)
        /\ (TooFewErrors # {} /\ ReportedErrors = {}) =>
               (printed = << >> /\ outcome = "returned")

\* A strict parse that met "too few arguments" and returned, nothing printed.
C5_Witness ==
    /\ pc = "done"
    /\ ~ignore_errors
    /\ TooFewErrors # {}
    /\ outcome = "returned"
    /\ printed = << >>

\* C6: a parse failure in tolerant mode (force set) prints nothing, does
\* not end the process, and the caller gets a partial result.
C6_TolerantSuppressesAll ==
    (pc = "done" /\ ignore_errors /\ errors # << >>) =>
        /\ printed = << >>
        /\ outcome = "returned"
        /\ ~result.none

(***************************************************************************)
(* Phase 2: the sub-parsers.                                               *)
(***************************************************************************)
\* The three tests a command has to pass, for the current session.
PassesFilter(c) ==
    /\ Command[c].name # ""
    /\ profile \in Command[c].active_in
    /\ ~Command[c].interactive

SubparsersBuilt == pc \in {"parse", "help"}

\* C7: no sub-parser is built for a command with an empty name, an inactive
\* command or an interactive one, and every name of a command that passes
\* the three tests has a sub-parser.
C7_SubparsersAreKeptCommands ==
    /\ \A n \in DOMAIN parsers :
          /\ n # ""
          /\ Command[parsers[n]].name = n
          /\ PassesFilter(parsers[n])
    /\ \A k \in 1..Len(argsCalls) : PassesFilter(argsCalls[k])
    /\ SubparsersBuilt =>
          \A c \in Range(classes) :
              PassesFilter(c) => Command[c].name \in DOMAIN parsers

\* A session in which PsList is inactive and the bundle's MyPsList is kept:
\* sub-parsers for imageinfo and pslist, none for shell.
C7_Witness ==
    /\ pc = "parse"
    /\ profile = "linux"
    /\ "MyPsList" \in Range(classes)
    /\ DOMAIN parsers = {"imageinfo", "pslist"}
    /\ parsers["pslist"] = "MyPsList"

\* The first class of the sequence cs that passes the filter and is named n.
FirstNamed(cs, n) ==
    cs[CHOOSE k \in 1..Len(cs) :
          /\ PassesFilter(cs[k]) /\ Command[cs[k]].name = n
          /\ \A m \in 1..(k - 1) :
                ~(PassesFilter(cs[m]) /\ Command[cs[m]].name = n)]

\* C8 as stated: the sub-parser of a name carries the argument declarations
\* of the first-registered kept command of that name.
C8_FirstRegisteredWins ==
    SubparsersBuilt =>
        \A n \in DOMAIN parsers : parsers[n] = FirstNamed(classes, n)

\* C8, amended: one sub-parser per name, declared by the first command of
\* that name in the order in which the catalogue was enumerated (the list
\* of line 280); args() is called once per name, on that command only, and
\* nothing fails.
C8_FirstEnumeratedWins ==
    SubparsersBuilt =>
        /\ \A n \in DOMAIN parsers : parsers[n] = FirstNamed(kept, n)
        /\ Len(argsCalls) = Cardinality(DOMAIN parsers)
        /\ \A k \in 1..Len(argsCalls) :
              parsers[Command[argsCalls[k]].name] = argsCalls[k]
        /\ outcome = "running"

\* Two kept commands are named pslist; args() was called for imageinfo and
\* for one of them.
C8_Witness ==
    /\ pc = "parse"
    /\ Cardinality({ k \in 1..Len(kept) : Command[kept[k]].name = "pslist" }) = 2
    /\ Len(argsCalls) = 2

(***************************************************************************)
(* The end of parse_args.                                                  *)
(***************************************************************************)
\* C9: when the final parse gave a result, parse_args ends the process
\* with a non-zero status after printing the main parser's help if the help
\* flag is set, and returns the result otherwise; it returns in no other
\* case.
C9_HelpExitsElseReturns ==
    /\ (pc = "done" /\ ~result.none) =>
          IF result.ns.help
          THEN /\ outcome = "exit"
               /\ exitStatus # 0
               /\ printed # << >>
               /\ printed[Len(printed)] = [parser |-> "main", text |-> "help"]
          ELSE outcome = "returned"
    /\ outcome = "returned" => (~result.none /\ ~result.ns.help)

\* The help flag was given before a valid command: help printed, exit.
C9_Witness ==
    /\ pc = "done"
    /\ ~result.none
    /\ result.ns.help
    /\ result.ns.module = "imageinfo"
    /\ outcome = "exit"

EndToEndInvocation ==
    << "--plugin", "bad.py", "--plugin", "good.py", "imageinfo" >>

\* C10: for the end-to-end invocation, bad.py is attempted and fails with
\* one logged error, good.py is imported, and parse_args returns a result
\* whose selected module is imageinfo.
C10_EndToEnd ==
    (argv = EndToEndInvocation /\ pc = "done") =>
        /\ AttemptedUnits = << "bad", "good" >>
        /\ ~attempts[1].ok
        /\ attempts[2].ok
        /\ Cardinality({ n \in 1..Len(log) : log[n].level = "error" }) = 1
        /\ outcome = "returned"
        /\ result.ns.module = "imageinfo"

(***************************************************************************)
(* Phase 1: the global options in the session state.                       *)
(***************************************************************************)
\* The steps of parse_args that follow the transaction of phase 1.
LaterSteps == { "guess", "load", "build", "parse", "help" }

\* The transaction of phase 1 committed in this call.
Committed == pc \in LaterSteps \/ outcome = "returned"

\* The option string tok is one of the strings of the argument vector.
Supplied(tok) == tok \in Range(argv)

\* The argument string that follows the last occurrence of tok; "" when
\* tok is the last string.
GivenValue(tok) ==
    LET k == CHOOSE n \in 1..Len(argv) :
                 argv[n] = tok /\ \A m \in (n + 1)..Len(argv) : argv[m] # tok
    IN  IF k < Len(argv) THEN argv[k + 1] ELSE ""

\* C11: when --verbose is one of the argument strings and phase 1
\* committed, the logging level in the session state is DEBUG, whether or
\* not --logging was given too, at every later step of the call.
C11_VerboseForcesDebug ==
    (Committed /\ Supplied("--verbose")) => state.logging = "DEBUG"

\* parse_args returned for an invocation with --logging INFO and --verbose.
C11_Witness ==
    /\ outcome = "returned"
    /\ Supplied("--verbose")
    /\ Supplied("--logging")
    /\ GivenValue("--logging") = "INFO"
    /\ state.logging = "DEBUG"

\* An option string of the global option d is in the argument vector.
SuppliedDest(d) == \E f \in AllOptions[d].flags : Supplied(f)

\* C12: the step that commits the transaction leaves, under every global
\* option given on the command line, the value given there, and under
\* every other global option the value the session already held, or the
\* registry default when it held none (the logging level under --verbose
\* set aside, which C11 covers).
C12_SuppliedOverrideOthersKept ==
    [][ (pc = "phase1" /\ pc' = "guess") =>
          /\ \A d \in {"help", "overwrite", "verbose"} :
                SuppliedDest(d) => state'[d] = TRUE
          /\ Supplied("--output") => state'.output = GivenValue("--output")
          /\ (Supplied("--logging") /\ ~Supplied("--verbose")) =>
                state'.logging = GivenValue("--logging")
          /\ Supplied("--plugin") =>
                /\ state'.plugin # << >>
                /\ Range(state'.plugin) \subseteq Range(argv)
          /\ \A d \in GlobalDests :
                (~SuppliedDest(d) /\ ~(d = "logging" /\ Supplied("--verbose")))
                    => state'[d] = IF d \in state.keys THEN state[d]
                                   ELSE DefaultNamespace[d]
      ]_vars

\* The invocation gives an output file that state.Set refuses.
FailureInTransaction ==
    /\ Supplied("--output")
    /\ GivenValue("--output") = "ro/out.txt"

\* C13: when a write of the transaction fails, no later step of the call
\* runs: the guesser is not called, no bundle is attempted, no sub-parser
\* is built and no final parse is made, so none sees the partly written
\* state.
C13_NoStepAfterFailedTransaction ==
    FailureInTransaction =>
        /\ pc \notin LaterSteps
        /\ guessCalls = 0
        /\ attempts = << >>
        /\ log = << >>
        /\ parsers = NoParsers
        /\ result = NoResult

\* The write of the output file failed after --overwrite was stored and
\* before the output file was: the state holds a part of the writes.
C13_Witness ==
    /\ FailureInTransaction
    /\ outcome = "raised"
    /\ state.overwrite
    /\ state.output # "ro/out.txt"

\* C14: the step after the commit calls the guesser once when the session
\* has no profile and not at all when it has one; the step finds the
\* global options committed and leaves them alone, and no bundle path was
\* attempted or logged before it; no other step calls the guesser.
C14_GuesserOnceAfterCommit ==
    [][ /\ pc = "guess" =>
              /\ guessCalls = 0
              /\ guessCalls' = IF profile = "none" THEN 1 ELSE 0
              /\ GlobalDests \subseteq state.keys
              /\ state' = state
              /\ attempts = << >> /\ attempts' = << >>
              /\ log = << >> /\ log' = << >>
        /\ pc # "guess" => guessCalls' = guessCalls
      ]_vars

\* The guesser ran, and the first bundle path is about to be attempted.
C14_Witness ==
    /\ pc = "load"
    /\ guessCalls = 1
    /\ paths # << >>
    /\ i = 1
    /\ attempts = << >>
    /\ log = << >>

(***************************************************************************)
(* The coercers and the argument names.                                    *)
(***************************************************************************)
\* The magnitude suffixes, in lower case.
Suffixes == { << "k" >>, << "k", "b" >>, << "m" >>, << "m", "b" >> }

\* A way to read token as an optional 0x, digits and an optional suffix in
\* any letter case: hex tells whether the prefix is there, n is the length
\* of the suffix.
Reads(token, hex, n) ==
    LET from == IF hex THEN 3 ELSE 1
        to   == Len(token) - n
        base == IF hex THEN 16 ELSE 10
    IN  /\ hex => StartsWith(token, << "0", "x" >>)
        /\ to >= from
        /\ \A k \in from..to : IsDigit(token[k], base)
        /\ n > 0 => Lower(SubSeq(token, to + 1, Len(token))) \in Suffixes

Readings(token) ==
    { rd \in BOOLEAN \X (0..2) : Reads(token, rd[1], rd[2]) }

WellFormed(token) == Readings(token) # {}

\* The number a reading stands for: the digits in their base, times 1024
\* for k and kb, times 1024 * 1024 for m and mb.
ValueOfReading(token, rd) ==
    LET from == IF rd[1] THEN 3 ELSE 1
        to   == Len(token) - rd[2]
        sfx  == Lower(SubSeq(token, to + 1, Len(token)))
    IN  Number(SubSeq(token, from, to), IF rd[1] THEN 16 ELSE 10)
            * (IF sfx = << >> THEN 1
               ELSE IF sfx[1] = "k" THEN 1024 ELSE 1024 * 1024)

IntParserCalled == pc = "done" /\ call.kind = "int"

\* C15: for every token made of an optional 0x, digits of that base and an
\* optional suffix k, kb, m or mb in any letter case, parse_int returns the
\* number times the magnitude of the suffix.
C15_WellFormedTokensCoerced ==
    (IntParserCalled /\ WellFormed(call.token)) =>
        /\ ret.ok
        /\ \A rd \in Readings(call.token) :
              ret.value = ValueOfReading(call.token, rd)

\* C16: parse_int fails for every token that is not a number followed by
\* at most one suffix at its very end.
C16_MalformedTokensRejected ==
    (IntParserCalled /\ ~WellFormed(call.token)) => ~ret.ok

ArrayIntParserCalled == pc = "done" /\ call.kind = "array"

\* C17: whatever way the sub-tokens are spread over comma-joined and
\* separate tokens, ArrayIntParser yields the list of the parse_int values
\* of the sub-tokens in their order when parse_int has a value for each of
\* them, and no list otherwise; without sub-tokens the list is empty.
C17_GroupingIrrelevant ==
    ArrayIntParserCalled =>
        IF \A k \in 1..Len(call.subs) : parse_int(call.subs[k]).ok
        THEN /\ ret.ok
             /\ Len(ret.value) = Len(call.subs)
             /\ \A k \in 1..Len(call.subs) :
                   ret.value[k] = parse_int(call.subs[k]).value
        ELSE ~ret.ok

\* Three sub-tokens arrived in two tokens, and the list holds three
\* numbers.
C17_Witness ==
    /\ ArrayIntParserCalled
    /\ Len(call.subs) = 3
    /\ Len(call.values) = 2
    /\ ret.ok
    /\ Len(ret.value) = 3

AddArgumentCalled == pc = "done" /\ call.kind = "mock"

\* The dashes at the start of str removed.
RECURSIVE WithoutLeadingDashes(_)
WithoutLeadingDashes(str) ==
    IF str # << >> /\ Head(str) = "-" THEN WithoutLeadingDashes(Tail(str))
    ELSE str

\* The dashes at both ends of str removed.
RECURSIVE WithoutOuterDashes(_)
WithoutOuterDashes(str) ==
    LET lead == WithoutLeadingDashes(str) IN
    IF lead # << >> /\ lead[Len(lead)] = "-"
    THEN WithoutOuterDashes(SubSeq(lead, 1, Len(lead) - 1))
    ELSE lead

Underscored(str) ==
    [n \in 1..Len(str) |-> IF str[n] = "-" THEN "_" ELSE str[n]]

\* C18: the argument name comes from the longest flag that starts with
\* two dashes, from the short flag when no flag starts with two dashes, and
\* from the destination name when no flag is given; the leading dashes are
\* removed and the other dashes become underscores.
C18_LongestFlagThenShortThenDest ==
    AddArgumentCalled =>
        LET flags  == { call.short_flag, call.long_flag }
            double == { f \in flags : StartsWith(f, << "-", "-" >>) }
            chosen == IF double # {}
                      THEN CHOOSE f \in double :
                               \A g \in double : Len(g) <= Len(f)
                      ELSE IF call.short_flag # << >> THEN call.short_flag
                      ELSE call.dest
        IN  ret.value = Underscored(WithoutLeadingDashes(chosen))

\* C18, amended: the argument name comes from the first flag when it
\* starts with two dashes, else from the second flag when that one starts
\* with two dashes, else from the destination name when one is given, else
\* from the first flag; the dashes at both ends are removed and the other
\* dashes become underscores.
C18_FirstDoubleDashThenDest ==
    AddArgumentCalled =>
        LET first  == call.short_flag
            second == call.long_flag
            chosen == CASE StartsWith(first, << "-", "-" >>) -> first
                        [] /\ ~StartsWith(first, << "-", "-" >>)
                           /\ StartsWith(second, << "-", "-" >>) -> second
                        [] OTHER -> IF call.dest # << >> THEN call.dest
                                    ELSE first
        IN  ret.value = Underscored(WithoutOuterDashes(chosen))

\* add_argument("-p", dest="pid") recorded the name pid.
C18_Witness ==
    /\ AddArgumentCalled
    /\ call.short_flag = << "-", "p" >>
    /\ call.long_flag = << >>
    /\ call.dest = << "p", "i", "d" >>
    /\ ret.value = << "p", "i", "d" >>

(***************************************************************************)
(* The invocation parse_args returns.                                      *)
(***************************************************************************)
\* C19: when parse_args returns, the result carries, for every global
\* option, the value phase 1 stored in the session state (the logging
\* level under --verbose included).
C19_ResultAgreesWithSession ==
    outcome = "returned" =>
        \A d \in GlobalDests : result.ns[d] = state[d]

\* C20: when parse_args returns, the module of the result is absent, or it
\* is the name of a command that passed the filter of phase 2 in this call,
\* and it is the name given on the command line, under which the
\* sub-parser that handled the rest of the line was registered.
C20_ModuleIsKeptCommand ==
    outcome = "returned" =>
        \/ result.ns.module = NoModule
        \/ /\ \E c \in Range(classes) :
                 PassesFilter(c) /\ Command[c].name = result.ns.module
           /\ result.ns.module \in DOMAIN parsers
           /\ result.ns.module \in Range(argv)

\* parse_args returned an invocation of pslist with one of its options.
C20_Witness ==
    /\ outcome = "returned"
    /\ result.ns.module = "pslist"
    /\ result.ns.opts # {}

====
